---- MODULE Spec2Model ----
(***************************************************************************)
(* nitro: a heterogeneous generational arena.                              *)
(*                                                                         *)
(* Two machines are modelled, each under its own specification:            *)
(*   Spec         the block-allocated Bucket of src/src/bucket.rs with the *)
(*                tag policy of src/src/tag.rs (index + generation ids);   *)
(*   StorageSpec  the Storage of src/src/storage.rs on top of the          *)
(*                TokenBucket of src/src/token_bucket.rs with the tag      *)
(*                policy of src/src/params.rs (token index + tag ids).     *)
(* Undefined behaviour (a read, write or free through a dangling pointer,  *)
(* an unchecked access out of range) moves the machine to an absorbing     *)
(* state in which nothing more is observed.                                *)
(***************************************************************************)
EXTENDS Integers, Sequences, FiniteSets, TLC

VARIABLES bucket, last, placedGen, nplaced,
          storage, debug_assertions, slast, issued, owed, gone, aba, splaced,
          placed_types, rtokens

bvars == <<bucket, last, placedGen, nplaced>>
svars == <<storage, debug_assertions, slast, issued, owed, gone, aba, splaced,
           placed_types>>
rvars == <<rtokens>>
vars == <<bucket, last, placedGen, nplaced,
          storage, debug_assertions, slast, issued, owed, gone, aba, splaced,
          placed_types, rtokens>>

(***************************************************************************)
(* Bounds and scaled program constants.                                    *)
(***************************************************************************)
Cap == 2
MaxBlocks == 2
MaxPlaces == 4
MaxStoragePlaces == 3
TagMax == 3
MaxRunPlaces == 5
MaxRepeatCreates == 3

(* The n-th value placed is ValueOf(n): every placed value is distinct.    *)
ValueNames == <<"v1", "v2", "v3", "v4", "v5", "v6", "v7", "v8">>
ValueOf(n) == ValueNames[n]
Values == {ValueNames[n] : n \in 1 .. Len(ValueNames)}
NoData == "nodata"
None == "none"
Undefined == "undefined"

MaxCells == MaxBlocks * Cap
Indexes == 0 .. (MaxCells - 1)

(***************************************************************************)
(* tag.rs: the Unique32 policy (saturating), scaled to 0 .. TagMax.        *)
(***************************************************************************)
DefaultTag == 0

(* next that wraps around, as the repeating policies do.                  *)
next_wrapping(tag) == (tag + 1) % (TagMax + 1)

next(tag) == IF tag + 1 > TagMax THEN TagMax ELSE tag + 1

is_over(tag) == tag = TagMax

(***************************************************************************)
(* bucket.rs: the Bucket.  blocks[k] is "alloc" or "freed": shrink_to_fit  *)
(* deallocates a block but leaves its pointer in the vector.  cells[i] is  *)
(* the memory of cell i: its tag word and its data (NoData when the value  *)
(* was moved out, dropped, or never written).  dropped says that          *)
(* Bucket::drop has run: the bucket is then no longer used.                *)
(***************************************************************************)
NewCell == [tag |-> DefaultTag, data |-> NoData]

BucketNew ==
    [blocks |-> <<>>, len |-> 0, cell_count |-> 0, removed |-> {},
     cells |-> [i \in Indexes |-> NewCell], ub |-> FALSE, dropped |-> FALSE]

(* grow that allocates two blocks at a time.                              *)
grow_two(b) == [b EXCEPT !.blocks = Append(Append(@, "alloc"), "alloc")]

grow(b) == [b EXCEPT !.blocks = Append(@, "alloc")]

BlockOf(index) == (index \div Cap) + 1

Dangling(b, index) == b.blocks[BlockOf(index)] = "freed"

is_banned_cell(b, index) == is_over(b.cells[index].tag)

next_index(b) == IF b.removed # {} THEN b.removed ELSE {b.len}

Bump(b, index) == IF index = b.len THEN [b EXCEPT !.len = @ + 1] ELSE b

(* place_unchecked, from the index the caller drew from next_index.       *)
(* The result is [b, ret, index, tag]; ret is "id" when (index, tag) is    *)
(* returned, Undefined after a use of a deallocated block, or "overflow"   *)
(* when the walk leaves the modelled memory.                               *)
RECURSIVE place_loop(_, _, _)
place_loop(b0, index, data) ==
    IF index \div Cap >= MaxBlocks
    THEN [b |-> b0, ret |-> "overflow", index |-> index, tag |-> DefaultTag]
    ELSE
    LET b1 == IF index \div Cap >= Len(b0.blocks) THEN grow(b0) ELSE b0
        exists == index < b1.cell_count
    IN  IF Dangling(b1, index)
        THEN [b |-> [b1 EXCEPT !.ub = TRUE], ret |-> Undefined,
              index |-> index, tag |-> DefaultTag]
        ELSE IF exists /\ is_banned_cell(b1, index)
        THEN place_loop(Bump(b1, index), index + 1, data)
        ELSE
        LET tag == IF exists THEN b1.cells[index].tag ELSE DefaultTag
        IN  IF is_over(tag)
            THEN place_loop(Bump(b1, index), index + 1, data)
            ELSE
            LET b2 == [b1 EXCEPT !.cells[index] = [tag |-> next(tag), data |-> data],
                                 !.removed = @ \ {index}]
                b3 == Bump(b2, index)
                b4 == IF b3.len > b3.cell_count
                      THEN [b3 EXCEPT !.cell_count = b3.len] ELSE b3
            IN  [b |-> b4, ret |-> "id", index |-> index, tag |-> tag]

place_unchecked(b, index, data) == place_loop(b, index, data)

(* remove_unchecked that also puts the cell back to the default           *)
(* generation.                                                             *)
remove_unchecked_retag(b, index) ==
    IF index >= b.len \/ index \in b.removed
    THEN [b |-> b, ret |-> None]
    ELSE
    LET b1 == IF index = b.len - 1 THEN [b EXCEPT !.len = @ - 1] ELSE b
    IN  IF Dangling(b1, index)
        THEN [b |-> [b1 EXCEPT !.ub = TRUE], ret |-> Undefined]
        ELSE IF is_banned_cell(b1, index)
        THEN [b |-> b1, ret |-> None]
        ELSE [b |-> [b1 EXCEPT !.removed = @ \cup {index},
                               !.cells[index] = NewCell],
              ret |-> b1.cells[index].data]

(* remove_unchecked without the test for a banned cell.                   *)
remove_unchecked_unbanned(b, index) ==
    IF index >= b.len \/ index \in b.removed
    THEN [b |-> b, ret |-> None]
    ELSE
    LET b1 == IF index = b.len - 1 THEN [b EXCEPT !.len = @ - 1] ELSE b
    IN  IF Dangling(b1, index)
        THEN [b |-> [b1 EXCEPT !.ub = TRUE], ret |-> Undefined]
        ELSE [b |-> [b1 EXCEPT !.removed = @ \cup {index},
                               !.cells[index].data = NoData],
              ret |-> b1.cells[index].data]

remove_unchecked(b, index) ==
    IF index >= b.len \/ index \in b.removed
    THEN [b |-> b, ret |-> None]
    ELSE
    LET b1 == IF index = b.len - 1 THEN [b EXCEPT !.len = @ - 1] ELSE b
    IN  IF Dangling(b1, index)
        THEN [b |-> [b1 EXCEPT !.ub = TRUE], ret |-> Undefined]
        ELSE IF is_banned_cell(b1, index)
        THEN [b |-> b1, ret |-> None]
        ELSE [b |-> [b1 EXCEPT !.removed = @ \cup {index},
                               !.cells[index].data = NoData],
              ret |-> b1.cells[index].data]

(* get_ucnhecked that does not look at len or at removed.                 *)
get_ucnhecked_unfiltered(b, index) ==
    IF index >= MaxCells THEN NoData
    ELSE IF is_banned_cell(b, index) THEN None
    ELSE b.cells[index].data

get_ucnhecked(b, index) ==
    IF index >= b.len \/ index \in b.removed
    THEN None
    ELSE IF Dangling(b, index) THEN Undefined
    ELSE IF is_banned_cell(b, index) THEN None
    ELSE b.cells[index].data

contains(b, index) ==
    IF index >= b.len THEN FALSE
    ELSE IF Dangling(b, index) THEN Undefined
    ELSE ~is_banned_cell(b, index) /\ index \notin b.removed

(* get_pointer_ucnhecked_for indexes the block vector (a bounds-checked    *)
(* Vec index) and the caller debug-asserts that the cell exists.           *)
Panics(b, index, dbg) ==
    /\ index < b.len
    /\ index \notin b.removed
    /\ \/ BlockOf(index) > Len(b.blocks)
       \/ dbg /\ index >= b.cell_count

(* try_remove, try_get and try_get_mut: the layout test, then the          *)
(* unchecked operation.  same_layout says whether Cell<U, T> has the       *)
(* layout of the bucket.                                                   *)
bucket_try_remove(b, same_layout, index, dbg) ==
    IF ~same_layout THEN [b |-> b, ret |-> None]
    ELSE IF Panics(b, index, dbg) THEN [b |-> b, ret |-> "panic"]
    ELSE remove_unchecked(b, index)

bucket_try_get(b, same_layout, index, dbg) ==
    IF ~same_layout THEN None
    ELSE IF Panics(b, index, dbg) THEN "panic"
    ELSE get_ucnhecked(b, index)

get_mut_unchecked(b, index) ==
    IF index >= b.len \/ index \in b.removed
    THEN None
    ELSE IF Dangling(b, index) THEN Undefined
    ELSE IF is_banned_cell(b, index) THEN None
    ELSE b.cells[index].data

bucket_try_get_mut(b, same_layout, index, dbg) ==
    IF ~same_layout THEN None
    ELSE IF Panics(b, index, dbg) THEN "panic"
    ELSE get_mut_unchecked(b, index)

(* shrink_to_fit that forgets the cells below len.                        *)
shrink_to_fit_zero(b) ==
    LET free_block_count == (b.cell_count - b.len) \div Cap
        n == Len(b.blocks)
        taken == {k \in 1 .. n : k > n - free_block_count}
    IN  [b EXCEPT !.blocks = [k \in 1 .. n |-> IF k \in taken THEN "freed" ELSE @[k]],
                  !.cell_count = 0,
                  !.ub = \E k \in taken : b.blocks[k] = "freed"]

(* shrink_to_fit deallocates the last free_block_count pointers of the     *)
(* vector, whatever their state, and keeps them in the vector.             *)
shrink_to_fit(b) ==
    LET free_block_count == (b.cell_count - b.len) \div Cap
        n == Len(b.blocks)
        taken == {k \in 1 .. n : k > n - free_block_count}
    IN  [b EXCEPT !.blocks = [k \in 1 .. n |-> IF k \in taken THEN "freed" ELSE @[k]],
                  !.cell_count = b.len,
                  !.ub = \E k \in taken : b.blocks[k] = "freed"]

LiveIn(b, index) == index \notin b.removed /\ ~is_banned_cell(b, index)

(* clear that lowers len by one instead of setting it to 0.               *)
clear_one(b) ==
    IF b.len = 0 THEN b
    ELSE [b EXCEPT !.cells = [i \in Indexes |->
                        IF i < b.len /\ LiveIn(b, i)
                        THEN [@[i] EXCEPT !.data = NoData] ELSE @[i]],
                   !.len = b.len - 1,
                   !.ub = \E i \in 0 .. (b.len - 1) : Dangling(b, i)]

clear(b) ==
    IF b.len = 0 THEN b
    ELSE [b EXCEPT !.cells = [i \in Indexes |->
                        IF i < b.len /\ LiveIn(b, i)
                        THEN [@[i] EXCEPT !.data = NoData] ELSE @[i]],
                   !.len = 0,
                   !.ub = \E i \in 0 .. (b.len - 1) : Dangling(b, i)]

reset(b) ==
    IF b.len = 0 THEN b
    ELSE [b EXCEPT !.cells = [i \in Indexes |->
                        IF i < b.len THEN NewCell ELSE @[i]],
                   !.removed = {},
                   !.ub = \E i \in 0 .. (b.len - 1) : Dangling(b, i)]

(* Bucket::drop: clear returns false on len = 0 and drop then returns at   *)
(* once; otherwise every pointer of the vector is deallocated.             *)
drop(b) ==
    IF b.len = 0 THEN [b EXCEPT !.dropped = TRUE]
    ELSE LET c == clear(b)
             n == Len(c.blocks)
         IN  [c EXCEPT !.blocks = [k \in 1 .. n |-> "freed"],
                       !.ub = c.ub \/ \E k \in 1 .. n : c.blocks[k] = "freed",
                       !.dropped = TRUE]

(* The cells clear, reset and drop hand to drop_cell.                      *)
DroppedBy(b) == {i \in Indexes : i < b.len /\ LiveIn(b, i)}

(***************************************************************************)
(* params.rs: the Unique tag policy (impl_unique), on TagBits-bit words.   *)
(* The top bit is the removed flag; the word with only that bit set is the *)
(* locked pattern.                                                         *)
(***************************************************************************)
TagBits == 2

RemovedBit == 2 ^ (TagBits - 1)

TagWord(n) == n % (2 ^ TagBits)

tag_last == RemovedBit - 1

Min(a, b) == IF a < b THEN a ELSE b

unique_next(tag) == Min(TagWord(tag + 1), tag_last)

is_removed(tag) == (tag \div RemovedBit) % 2 # 0

set_removed(tag, removed) ==
    IF removed
    THEN (IF is_removed(tag) THEN tag ELSE tag + RemovedBit)
    ELSE (IF is_removed(tag) THEN tag - RemovedBit ELSE tag)

is_locked(tag) == tag = RemovedBit

mark_locked(tag) == RemovedBit

(***************************************************************************)
(* params.rs: the RepeatIn tag policy (impl_repeat_in) on words of w bits. *)
(* The three instances differ in the width of the word; last() returns a   *)
(* usize, so its value passes through a word of UsizeBits bits, which is   *)
(* as wide as the second instance and narrower than the third.  self.0 + 1 *)
(* is taken modulo the word; it overflows only on a word of all ones,      *)
(* which no token holds.                                                   *)
(***************************************************************************)
RepeatIn32Bits == 2
RepeatIn64Bits == 3
RepeatIn128Bits == 4
UsizeBits == 3

RepeatWidths == {RepeatIn32Bits, RepeatIn64Bits, RepeatIn128Bits}

repeat_last(w) == (2 ^ (w - 1)) % (2 ^ UsizeBits)

repeat_next(w, tag) == Min((tag + 1) % (2 ^ w), repeat_last(w) % (2 ^ w))

repeat_is_removed(w, tag) == (tag \div (2 ^ (w - 1))) % 2 # 0

repeat_set_removed(w, tag, removed) ==
    IF removed
    THEN (IF repeat_is_removed(w, tag) THEN tag ELSE tag + 2 ^ (w - 1))
    ELSE (IF repeat_is_removed(w, tag) THEN tag - 2 ^ (w - 1) ELSE tag)

repeat_is_locked(w, tag) == FALSE

repeat_mark_locked(w, tag) == tag

(***************************************************************************)
(* token_bucket.rs: tokens and their free list.  A token is its tag and    *)
(* the two words of its union: w0 is location.bucket_index or              *)
(* free_token_index, w1 is location.inbucket_index.  An Option<S> is the   *)
(* empty sequence or a one-element sequence.  dbg says whether the build   *)
(* has debug assertions.                                                   *)
(***************************************************************************)
TokenNew(bucket_index, inbucket_index) ==
    [tag |-> DefaultTag, w0 |-> bucket_index, w1 |-> inbucket_index]

TokenBucketNew == [tokens |-> <<>>, free_cursor |-> <<>>]

NoId == [token_index |-> 0, tag |-> DefaultTag]

Fault(dbg) == IF dbg THEN "panic" ELSE Undefined

create(tb, bucket_index, inbucket_index, dbg) ==
    IF tb.free_cursor # <<>>
    THEN
        LET free == tb.free_cursor[1]
        IN  IF free >= Len(tb.tokens)
            THEN [tb |-> tb, id |-> NoId, fault |-> Fault(dbg)]
            ELSE
            LET token == tb.tokens[free + 1]
                next_free == token.w0
                tag == set_removed(token.tag, FALSE)
            IN  IF dbg /\ (~is_removed(token.tag) \/ is_locked(token.tag))
                THEN [tb |-> tb, id |-> NoId, fault |-> "panic"]
                ELSE [tb |-> [tokens |-> [tb.tokens EXCEPT ![free + 1] =
                                   [tag |-> tag, w0 |-> bucket_index,
                                    w1 |-> inbucket_index]],
                              free_cursor |-> IF free # next_free
                                              THEN <<next_free>> ELSE <<>>],
                      id |-> [token_index |-> free, tag |-> tag],
                      fault |-> "ok"]
    ELSE [tb |-> [tb EXCEPT !.tokens =
                      Append(@, TokenNew(bucket_index, inbucket_index))],
          id |-> [token_index |-> Len(tb.tokens), tag |-> DefaultTag],
          fault |-> "ok"]

(* mark_removed that keeps the tag of the token.                           *)
mark_removed_same_tag(tb, token_index) ==
    LET token == tb.tokens[token_index + 1]
    IN  [tokens |-> [tb.tokens EXCEPT ![token_index + 1] =
               [tag |-> set_removed(token.tag, TRUE),
                w0 |-> IF tb.free_cursor # <<>>
                       THEN tb.free_cursor[1] ELSE token_index,
                w1 |-> token.w1]],
         free_cursor |-> <<token_index>>]

(* mark_removed that puts a token with an exhausted tag on the free list. *)
mark_removed_no_lock(tb, token_index) ==
    LET token == tb.tokens[token_index + 1]
        tag == unique_next(token.tag)
    IN  [tokens |-> [tb.tokens EXCEPT ![token_index + 1] =
               [tag |-> IF tag = token.tag THEN mark_locked(token.tag)
                        ELSE set_removed(tag, TRUE),
                w0 |-> IF tb.free_cursor # <<>>
                       THEN tb.free_cursor[1] ELSE token_index,
                w1 |-> token.w1]],
         free_cursor |-> <<token_index>>]

(* mark_removed that forgets to set the removed flag.                     *)
mark_removed_unflagged(tb, token_index) ==
    LET token == tb.tokens[token_index + 1]
        tag == unique_next(token.tag)
    IN  IF tag = token.tag
        THEN [tb EXCEPT !.tokens[token_index + 1].tag = mark_locked(token.tag)]
        ELSE [tokens |-> [tb.tokens EXCEPT ![token_index + 1] =
                   [tag |-> tag,
                    w0 |-> IF tb.free_cursor # <<>>
                           THEN tb.free_cursor[1] ELSE token_index,
                    w1 |-> token.w1]],
              free_cursor |-> <<token_index>>]

mark_removed(tb, token_index) ==
    LET token == tb.tokens[token_index + 1]
        tag == unique_next(token.tag)
    IN  IF tag = token.tag
        THEN [tb EXCEPT !.tokens[token_index + 1].tag = mark_locked(token.tag)]
        ELSE [tokens |-> [tb.tokens EXCEPT ![token_index + 1] =
                   [tag |-> set_removed(tag, TRUE),
                    w0 |-> IF tb.free_cursor # <<>>
                           THEN tb.free_cursor[1] ELSE token_index,
                    w1 |-> token.w1]],
              free_cursor |-> <<token_index>>]

(* set_inbucket_index that leaves the token as it is.                     *)
set_inbucket_index_kept(tb, token_index, inbucket_index) == tb

set_inbucket_index(tb, token_index, inbucket_index) ==
    [tb EXCEPT !.tokens[token_index + 1].w1 = inbucket_index]

(* contains that does not compare the tag of the id.                      *)
token_contains_any_tag(tb, token_index, tag) ==
    IF token_index >= Len(tb.tokens) THEN FALSE
    ELSE LET token == tb.tokens[token_index + 1]
         IN  ~is_removed(token.tag) /\ ~is_locked(token.tag)

token_contains(tb, token_index, tag) ==
    IF token_index >= Len(tb.tokens) THEN FALSE
    ELSE LET token == tb.tokens[token_index + 1]
         IN  tag = token.tag /\ ~is_removed(token.tag) /\ ~is_locked(token.tag)

reset_tokens(tb) ==
    [tb EXCEPT !.tokens = [k \in 1 .. Len(tb.tokens) |->
        [@[k] EXCEPT !.tag = set_removed(DefaultTag, is_removed(@))]]]

token_clear(tb) == [tb EXCEPT !.tokens = <<>>]

(***************************************************************************)
(* token_bucket.rs as instantiated with a RepeatIn policy of w bits.       *)
(***************************************************************************)
repeat_create(w, tb, bucket_index, inbucket_index, dbg) ==
    IF tb.free_cursor # <<>>
    THEN
        LET free == tb.free_cursor[1]
        IN  IF free >= Len(tb.tokens)
            THEN [tb |-> tb, id |-> NoId, fault |-> Fault(dbg)]
            ELSE
            LET token == tb.tokens[free + 1]
                next_free == token.w0
                tag == repeat_set_removed(w, token.tag, FALSE)
            IN  IF dbg /\ (~repeat_is_removed(w, token.tag) \/
                           repeat_is_locked(w, token.tag))
                THEN [tb |-> tb, id |-> NoId, fault |-> "panic"]
                ELSE [tb |-> [tokens |-> [tb.tokens EXCEPT ![free + 1] =
                                   [tag |-> tag, w0 |-> bucket_index,
                                    w1 |-> inbucket_index]],
                              free_cursor |-> IF free # next_free
                                              THEN <<next_free>> ELSE <<>>],
                      id |-> [token_index |-> free, tag |-> tag],
                      fault |-> "ok"]
    ELSE [tb |-> [tb EXCEPT !.tokens =
                      Append(@, TokenNew(bucket_index, inbucket_index))],
          id |-> [token_index |-> Len(tb.tokens), tag |-> DefaultTag],
          fault |-> "ok"]

repeat_mark_removed(w, tb, token_index) ==
    LET token == tb.tokens[token_index + 1]
        tag == repeat_next(w, token.tag)
    IN  IF tag = token.tag
        THEN [tb EXCEPT !.tokens[token_index + 1].tag =
                            repeat_mark_locked(w, token.tag)]
        ELSE [tokens |-> [tb.tokens EXCEPT ![token_index + 1] =
                   [tag |-> repeat_set_removed(w, tag, TRUE),
                    w0 |-> IF tb.free_cursor # <<>>
                           THEN tb.free_cursor[1] ELSE token_index,
                    w1 |-> token.w1]],
              free_cursor |-> <<token_index>>]

repeat_contains(w, tb, token_index, tag) ==
    IF token_index >= Len(tb.tokens) THEN FALSE
    ELSE LET token == tb.tokens[token_index + 1]
         IN  /\ tag = token.tag
             /\ ~repeat_is_removed(w, token.tag)
             /\ ~repeat_is_locked(w, token.tag)

(***************************************************************************)
(* The dense bucket Storage calls (push_unchecked, swap_remove_unchecked,  *)
(* swap_erase_unchecked, set_token_index_unchecked, try_get, clear): its   *)
(* code is not among the sources, so it is modelled from its callers in    *)
(* storage.rs.  An item is a value, the index of its token, and the id     *)
(* place returned for it (kept for the claims, not read by the program).   *)
(***************************************************************************)
DenseNew == <<>>

push_unchecked(items, data) ==
    [items |-> Append(items, [data |-> data, token_index |-> 0, id |-> NoId]),
     index |-> Len(items)]

set_token_index_unchecked(items, index, id) ==
    [items EXCEPT ![index + 1].token_index = id.token_index, ![index + 1].id = id]

swap_remove_unchecked(items, index) ==
    IF index >= Len(items)
    THEN [items |-> items, data |-> Undefined, swap |-> <<>>, fault |-> Undefined]
    ELSE
    LET n == Len(items)
        moved == items[n]
        kept == IF index + 1 = n THEN SubSeq(items, 1, n - 1)
                ELSE [SubSeq(items, 1, n - 1) EXCEPT ![index + 1] = moved]
    IN  [items |-> kept, data |-> items[index + 1].data,
         swap |-> IF index + 1 = n THEN <<>> ELSE <<moved.token_index>>,
         fault |-> "ok"]

dense_try_get(items, index) ==
    IF index >= Len(items) THEN None ELSE items[index + 1].data

dense_clear(items) == <<>>

(***************************************************************************)
(* storage.rs: the Storage.  data is the vector of (type_id, bucket);      *)
(* bucket_indexes maps a type to its index in data.  status is "ok" until  *)
(* a panic, an undefined behaviour or the drop ends the Storage's life.    *)
(***************************************************************************)
Types == {"T", "U"}

StorageNew ==
    [tokens |-> TokenBucketNew, data |-> <<>>,
     bucket_indexes |-> [t \in Types |-> <<>>], status |-> "ok"]

place(st, T, data, dbg) ==
    LET known == st.bucket_indexes[T] # <<>>
        bucket_index == IF known THEN st.bucket_indexes[T][1] ELSE Len(st.data)
        indexes == [st.bucket_indexes EXCEPT ![T] = <<bucket_index>>]
        data1 == IF bucket_index = Len(st.data)
                 THEN Append(st.data, [type_id |-> T, bucket |-> DenseNew])
                 ELSE st.data
        pushed == push_unchecked(data1[bucket_index + 1].bucket, data)
        made == create(st.tokens, bucket_index, pushed.index, dbg)
        data2 == [data1 EXCEPT ![bucket_index + 1].bucket = pushed.items]
    IN  IF made.fault # "ok"
        THEN [st |-> [st EXCEPT !.bucket_indexes = indexes, !.data = data2,
                                !.status = made.fault],
              ret |-> made.fault, id |-> NoId]
        ELSE [st |-> [st EXCEPT !.bucket_indexes = indexes,
                        !.tokens = made.tb,
                        !.data = [data2 EXCEPT ![bucket_index + 1].bucket =
                            set_token_index_unchecked(@, pushed.index, made.id)]],
              ret |-> "id", id |-> made.id]

(* remove and erase differ in the type test and in what becomes of the    *)
(* value; typed says which one runs.                                       *)
take(st, typed, T, id) ==
    IF id.token_index >= Len(st.tokens.tokens)
    THEN [st |-> st, ret |-> None]
    ELSE
    LET token == st.tokens.tokens[id.token_index + 1]
    IN  IF is_removed(token.tag) \/ is_locked(token.tag)
        THEN [st |-> st, ret |-> None]
        ELSE IF token.w0 >= Len(st.data)
        THEN [st |-> st, ret |-> None]
        ELSE IF typed /\ T # st.data[token.w0 + 1].type_id
        THEN [st |-> st, ret |-> None]
        ELSE
        LET tb1 == mark_removed(st.tokens, id.token_index)
            out == swap_remove_unchecked(st.data[token.w0 + 1].bucket, token.w1)
            data1 == [st.data EXCEPT ![token.w0 + 1].bucket = out.items]
        IN  IF out.fault # "ok"
            THEN [st |-> [st EXCEPT !.tokens = tb1, !.status = out.fault],
                  ret |-> out.fault]
            ELSE IF out.swap # <<>> /\ out.swap[1] >= Len(tb1.tokens)
            THEN [st |-> [st EXCEPT !.tokens = tb1, !.data = data1,
                                    !.status = "panic"],
                  ret |-> "panic"]
            ELSE [st |-> [st EXCEPT !.data = data1,
                            !.tokens = IF out.swap # <<>>
                                       THEN set_inbucket_index(tb1, out.swap[1], token.w1)
                                       ELSE tb1],
                  ret |-> out.data]

(* remove without its TypeId test.                                        *)
remove_untyped(st, T, id) == take(st, FALSE, T, id)

(* remove that marks the token removed before it fails the TypeId test.   *)
remove_marking(st, T, id) ==
    LET r == take(st, TRUE, T, id)
        u == take(st, FALSE, T, id)
    IN  IF r.ret = None /\ u.ret # None
        THEN [st |-> [st EXCEPT !.tokens = mark_removed(@, id.token_index)],
              ret |-> None]
        ELSE r

remove(st, T, id) == take(st, TRUE, T, id)

erase(st, id) == take(st, FALSE, "T", id)

(* try_get reads the token's location without looking at its tag: on a    *)
(* removed token location() fails its debug assertions, and without them  *)
(* the words of the union are read as they are.                            *)
try_get(st, T, id, dbg) ==
    IF id.token_index >= Len(st.tokens.tokens) THEN None
    ELSE
    LET token == st.tokens.tokens[id.token_index + 1]
    IN  IF dbg /\ (is_removed(token.tag) \/ is_locked(token.tag)) THEN "panic"
        ELSE IF token.w0 >= Len(st.data) THEN None
        ELSE IF T # st.data[token.w0 + 1].type_id THEN None
        ELSE dense_try_get(st.data[token.w0 + 1].bucket, token.w1)

try_get_mut(st, T, id, dbg) ==
    IF id.token_index >= Len(st.tokens.tokens) THEN None
    ELSE
    LET token == st.tokens.tokens[id.token_index + 1]
    IN  IF dbg /\ (is_removed(token.tag) \/ is_locked(token.tag)) THEN "panic"
        ELSE IF token.w0 >= Len(st.data) THEN None
        ELSE IF T # st.data[token.w0 + 1].type_id THEN None
        ELSE dense_try_get(st.data[token.w0 + 1].bucket, token.w1)

storage_contains(st, id) == token_contains(st.tokens, id.token_index, id.tag)

ClearBuckets(data) ==
    [k \in 1 .. Len(data) |-> [data[k] EXCEPT !.bucket = dense_clear(@)]]

storage_clear(st) ==
    [st EXCEPT !.tokens = token_clear(@), !.data = ClearBuckets(@)]

storage_reset(st) ==
    [st EXCEPT !.tokens = reset_tokens(@),
               !.bucket_indexes = [t \in Types |-> <<>>],
               !.data = ClearBuckets(@)]

storage_shrink_to_fit(st) == st

storage_drop(st) == [StorageNew EXCEPT !.status = "dropped"]

(***************************************************************************)
(* The Bucket machine.  last records the latest call and what it returned; *)
(* placedGen[i] is the generation the latest place at index i returned     *)
(* since the latest reset: -1 when no place has returned i since the       *)
(* bucket was made, -2 when none has since the latest reset.  Of last:     *)
(*   prevGen  placedGen at the returned index before the place;            *)
(*   banned   the cell at the returned index was banned before the place;  *)
(*   lost     the place wrote over a value that was never given up;        *)
(*   run      the number of calls so far when all of them were places,     *)
(*            -1 otherwise;                                                *)
(*   twice    the call gave up (returned or dropped) a value that had      *)
(*            been given up before;                                        *)
(*   held     the generation the cell at the returned index held before    *)
(*            the place;                                                   *)
(*   again    a clear that directly follows a clear; first says whether    *)
(*            that earlier clear changed the bucket, same whether this     *)
(*            one left it as it was.                                       *)
(***************************************************************************)
NoOp == [op |-> "none", index |-> 0, tag |-> DefaultTag, data |-> NoData,
         ret |-> None, prevGen |-> -1, fresh |-> FALSE, banned |-> FALSE,
         lost |-> FALSE, run |-> -1, twice |-> FALSE, again |-> FALSE,
         first |-> FALSE, same |-> FALSE, held |-> 0]

NoGen == [i \in Indexes |-> -1]

ResetGen == [i \in Indexes |-> -2]

BucketInit ==
    /\ bucket = BucketNew
    /\ last = [NoOp EXCEPT !.run = 0]
    /\ placedGen = NoGen
    /\ nplaced = 0

InUse == ~bucket.ub /\ ~bucket.dropped

PlaceWithin(limit, data) ==
    /\ InUse
    /\ UNCHANGED <<svars, rvars>>
    /\ nplaced < limit
    /\ nplaced' = nplaced + 1
    /\ \E start \in next_index(bucket) :
         LET r == place_unchecked(bucket, start, data)
         IN  /\ r.ret # "overflow"
             /\ bucket' = r.b
             /\ last' = [NoOp EXCEPT !.op = "place", !.index = r.index,
                                     !.tag = r.tag, !.data = data, !.ret = r.ret,
                                     !.prevGen = placedGen[r.index],
                                     !.banned = is_banned_cell(bucket, r.index),
                                     !.held = bucket.cells[r.index].tag,
                                     !.lost = r.ret = "id" /\
                                              bucket.cells[r.index].data # NoData,
                                     !.run = IF last.run >= 0 /\ r.ret = "id"
                                             THEN last.run + 1 ELSE -1]
             /\ placedGen' = IF r.ret = "id"
                             THEN [placedGen EXCEPT ![r.index] = r.tag]
                             ELSE placedGen

Place(data) == PlaceWithin(MaxPlaces, data)

(* fresh: the call directly follows the place that returned this index;   *)
(* data is then the value that place was given.                            *)
Remove(index) ==
    /\ InUse
    /\ UNCHANGED <<svars, rvars>>
    /\ LET r == remove_unchecked(bucket, index)
           fresh == last.op = "place" /\ last.ret = "id" /\ last.index = index
       IN  /\ bucket' = r.b
           /\ last' = [NoOp EXCEPT !.op = "remove", !.index = index,
                                   !.ret = r.ret, !.fresh = fresh,
                                   !.data = IF fresh THEN last.data ELSE NoData,
                                   !.twice = r.ret = NoData,
                                   !.same = r.b = bucket]
    /\ UNCHANGED <<placedGen, nplaced>>

Clear ==
    /\ InUse
    /\ UNCHANGED <<svars, rvars>>
    /\ bucket' = clear(bucket)
    /\ last' = [NoOp EXCEPT !.op = "clear",
                  !.twice = \E i \in DroppedBy(bucket) : bucket.cells[i].data = NoData,
                  !.again = last.op = "clear",
                  !.first = last.op = "clear" /\ ~last.same,
                  !.same = clear(bucket) = bucket]
    /\ UNCHANGED <<placedGen, nplaced>>

ShrinkToFit ==
    /\ InUse
    /\ UNCHANGED <<svars, rvars>>
    /\ bucket' = shrink_to_fit(bucket)
    /\ last' = [NoOp EXCEPT !.op = "shrink_to_fit"]
    /\ UNCHANGED <<placedGen, nplaced>>

Reset ==
    /\ InUse
    /\ UNCHANGED <<svars, rvars>>
    /\ bucket' = reset(bucket)
    /\ last' = [NoOp EXCEPT !.op = "reset",
                  !.twice = \E i \in DroppedBy(bucket) : bucket.cells[i].data = NoData]
    /\ placedGen' = ResetGen
    /\ UNCHANGED nplaced

Drop ==
    /\ InUse
    /\ UNCHANGED <<svars, rvars>>
    /\ bucket' = drop(bucket)
    /\ last' = [NoOp EXCEPT !.op = "drop",
                  !.twice = \E i \in DroppedBy(bucket) : bucket.cells[i].data = NoData]
    /\ placedGen' = NoGen
    /\ UNCHANGED nplaced

(***************************************************************************)
(* The Storage machine.  The caller holds the ids place returned (issued)  *)
(* and may pass any of them, with any type, to remove and erase.  What the *)
(* claims need of the past is kept beside the state:                       *)
(*   slast  the latest call, what it returned, and what held before it     *)
(*          (locked: the index of the token that the remove directly       *)
(*          before a reset locked, its generation exhausted; before: the ids of the values a clear found in the      *)
(*          Storage, kept by the place that directly follows the clear);   *)
(*   placed_types  the types place has been called with;                   *)
(*   slast.reissued    the id a place returned had been returned before;   *)
(*   slast.was_locked  the token a place returned was locked before it;    *)
(*   slast.exhausted   the index of the token a remove or erase took       *)
(*                     while its tag was the last one;                     *)
(*   owed   the ids place returned for which no remove(id), erase(id),     *)
(*          clear, reset or drop has been executed since;                  *)
(*   gone   the ids a remove returned a value for, or an erase ran on      *)
(*          while contained, with no place since;                          *)
(*   aba    set directly after id1 = place(A), remove(id1), id2 = place(B) *)
(*          when id2 has the token index of id1.                           *)
(***************************************************************************)
NoItem == [id |-> NoId, ty |-> "none", data |-> NoData]

NoCall == [op |-> "none", ty |-> "none", id |-> NoId, ret |-> None,
           data |-> NoData, fresh |-> FALSE, again |-> FALSE,
           expect |-> None, stale |-> FALSE, mismatch |-> FALSE,
           victim |-> NoItem, same |-> TRUE, locked |-> {}, before |-> {},
           reissued |-> FALSE, was_locked |-> FALSE, exhausted |-> {}]

NoAba == [set |-> FALSE, id1 |-> NoId, ty1 |-> "none", id2 |-> NoId,
          ty2 |-> "none", data |-> NoData]

(* The values the Storage holds, each with the id place returned for it.  *)
Stored(st) ==
    UNION {{[id |-> st.data[k].bucket[i].id, ty |-> st.data[k].type_id,
             data |-> st.data[k].bucket[i].data] :
                i \in 1 .. Len(st.data[k].bucket)} : k \in 1 .. Len(st.data)}

StorageInit ==
    /\ storage = StorageNew
    /\ debug_assertions \in BOOLEAN
    /\ slast = NoCall
    /\ issued = {}
    /\ owed = {}
    /\ gone = {}
    /\ aba = NoAba
    /\ splaced = 0
    /\ placed_types = {}

WasLocked(st, id) ==
    /\ id.token_index < Len(st.tokens.tokens)
    /\ is_locked(st.tokens.tokens[id.token_index + 1].tag)

(* The token index of id when the call that returned ret took that token   *)
(* while it held the last tag.                                             *)
Exhausted(st, id, ret) ==
    IF /\ ret \in Values
       /\ id.token_index < Len(st.tokens.tokens)
       /\ st.tokens.tokens[id.token_index + 1].tag = tag_last
    THEN {id.token_index} ELSE {}

SPlace(T, data) ==
    /\ storage.status = "ok"
    /\ splaced < MaxStoragePlaces
    /\ splaced' = splaced + 1
    /\ placed_types' = placed_types \cup {T}
    /\ LET r == place(storage, T, data, debug_assertions)
           reuse == /\ r.ret = "id"
                    /\ slast.op = "remove" /\ slast.fresh
                    /\ slast.ret \in Values
                    /\ slast.id.token_index = r.id.token_index
       IN  /\ storage' = r.st
           /\ slast' = [NoCall EXCEPT !.op = "place", !.ty = T, !.id = r.id,
                                      !.ret = r.ret, !.data = data,
                                      !.reissued = r.ret = "id" /\ r.id \in issued,
                                      !.was_locked = r.ret = "id" /\ WasLocked(storage, r.id),
                                      !.before = IF slast.op = "clear"
                                                 THEN slast.before ELSE {}]
           /\ issued' = IF r.ret = "id" THEN issued \cup {r.id} ELSE issued
           /\ owed' = IF r.ret = "id" THEN owed \cup {r.id} ELSE owed
           /\ gone' = {}
           /\ aba' = IF reuse
                     THEN [set |-> TRUE, id1 |-> slast.id, ty1 |-> slast.ty,
                           id2 |-> r.id, ty2 |-> T, data |-> data]
                     ELSE NoAba
    /\ UNCHANGED <<bvars, rvars, debug_assertions>>

(* A remove that returns none and is no case of a claim (it follows       *)
(* neither the place nor a remove of its id, and its token holds no value) *)
(* is recorded without its arguments.                                      *)
SRemove(T, id) ==
    /\ storage.status = "ok"
    /\ LET r == remove(storage, T, id)
           held == Stored(storage)
           own == {it \in held : it.id = id}
           others == {it \in held : it.id.token_index = id.token_index /\ it.id # id}
           fresh == /\ slast.op = "place" /\ slast.ret = "id"
                    /\ slast.id = id /\ slast.ty = T
           again == /\ slast.op = "remove" /\ slast.id = id
                    /\ slast.ty = T /\ slast.ret \in Values
           stale == own = {} /\ others # {}
           mismatch == \E it \in own : it.ty # T
           plain == r.ret = None /\ ~fresh /\ ~again /\ own = {} /\ others = {}
       IN  /\ storage' = r.st
           /\ slast' = IF plain THEN [NoCall EXCEPT !.op = "remove"]
                ELSE [NoCall EXCEPT
                  !.op = "remove", !.ty = T, !.id = id, !.ret = r.ret,
                  !.fresh = fresh,
                  !.data = IF fresh THEN slast.data ELSE NoData,
                  !.again = again,
                  !.expect = IF \E it \in own : it.ty = T
                             THEN (CHOOSE it \in own : it.ty = T).data ELSE None,
                  !.stale = stale,
                  !.mismatch = mismatch,
                  !.victim = IF own # {} THEN CHOOSE it \in own : TRUE
                             ELSE IF others # {} THEN CHOOSE it \in others : TRUE
                             ELSE NoItem,
                  !.same = r.st = storage,
                  !.exhausted = Exhausted(storage, id, r.ret)]
           /\ gone' = IF r.ret \in Values THEN gone \cup {id} ELSE gone
    /\ owed' = owed \ {id}
    /\ aba' = NoAba
    /\ UNCHANGED <<bvars, rvars, debug_assertions, issued, splaced, placed_types>>

SErase(id) ==
    /\ storage.status = "ok"
    /\ LET r == erase(storage, id)
       IN  /\ storage' = r.st
           /\ slast' = [NoCall EXCEPT !.op = "erase", !.ret = r.ret,
                                      !.exhausted = Exhausted(storage, id, r.ret)]
    /\ gone' = IF storage_contains(storage, id) THEN gone \cup {id} ELSE gone
    /\ owed' = owed \ {id}
    /\ aba' = NoAba
    /\ UNCHANGED <<bvars, rvars, debug_assertions, issued, splaced, placed_types>>

SClear ==
    /\ storage.status = "ok"
    /\ storage' = storage_clear(storage)
    /\ slast' = [NoCall EXCEPT !.op = "clear",
                    !.before = {it.id : it \in Stored(storage)}]
    /\ owed' = {}
    /\ aba' = NoAba
    /\ UNCHANGED <<bvars, rvars, debug_assertions, issued, gone, splaced, placed_types>>

SReset ==
    /\ storage.status = "ok"
    /\ storage' = storage_reset(storage)
    /\ slast' = [NoCall EXCEPT !.op = "reset",
                    !.locked = IF /\ slast.op = "remove" /\ slast.ret \in Values
                                  /\ is_locked(storage.tokens.tokens[
                                         slast.id.token_index + 1].tag)
                               THEN {slast.id.token_index} ELSE {}]
    /\ owed' = {}
    /\ aba' = NoAba
    /\ UNCHANGED <<bvars, rvars, debug_assertions, issued, gone, splaced, placed_types>>

SShrinkToFit ==
    /\ storage.status = "ok"
    /\ storage' = storage_shrink_to_fit(storage)
    /\ UNCHANGED <<bvars, rvars, debug_assertions, slast, issued, owed, gone, aba, splaced,
                   placed_types>>

(* Drop for Storage drops every bucket and then the fields: nothing of    *)
(* the Storage is left to observe.                                         *)
SDrop ==
    /\ storage.status \in {"ok", "panic"}
    /\ storage' = storage_drop(storage)
    /\ slast' = [NoCall EXCEPT !.op = "drop"]
    /\ issued' = {}
    /\ owed' = {}
    /\ gone' = {}
    /\ aba' = NoAba
    /\ placed_types' = {}
    /\ UNCHANGED <<bvars, rvars, debug_assertions, splaced>>

(***************************************************************************)
(* The TokenBucket machine under a RepeatIn policy.  rtokens holds the     *)
(* width of the policy the TokenBucket was made with (0 before it is       *)
(* made), the TokenBucket, the number of create calls, and the latest      *)
(* call: for mark_removed the id it was called for (the token's index and  *)
(* the tag it held) and whether next() returned the tag unchanged.         *)
(* mark_removed is called on live tokens only, as Storage::remove and      *)
(* erase do.                                                               *)
(***************************************************************************)
NoRepeatCall == [op |-> "none", id |-> NoId, lock_branch |-> FALSE]

RepeatInit ==
    rtokens = [w |-> 0, tb |-> TokenBucketNew, status |-> "ok", created |-> 0,
               last |-> NoRepeatCall]

RNew(w) ==
    /\ rtokens.w = 0
    /\ rtokens' = [rtokens EXCEPT !.w = w]
    /\ UNCHANGED <<bvars, svars>>

RCreate ==
    /\ rtokens.w # 0 /\ rtokens.status = "ok"
    /\ rtokens.created < MaxRepeatCreates
    /\ LET r == repeat_create(rtokens.w, rtokens.tb, 0, 0, debug_assertions)
       IN  rtokens' = [rtokens EXCEPT !.tb = r.tb, !.status = r.fault,
                          !.created = @ + 1,
                          !.last = [op |-> "create", id |-> r.id,
                                    lock_branch |-> FALSE]]
    /\ UNCHANGED <<bvars, svars>>

RMarkRemoved(token_index) ==
    /\ rtokens.w # 0 /\ rtokens.status = "ok"
    /\ token_index < Len(rtokens.tb.tokens)
    /\ LET token == rtokens.tb.tokens[token_index + 1]
       IN  /\ ~repeat_is_removed(rtokens.w, token.tag)
           /\ ~repeat_is_locked(rtokens.w, token.tag)
           /\ rtokens' = [rtokens EXCEPT
                  !.tb = repeat_mark_removed(rtokens.w, rtokens.tb, token_index),
                  !.last = [op |-> "mark_removed",
                            id |-> [token_index |-> token_index, tag |-> token.tag],
                            lock_branch |->
                                repeat_next(rtokens.w, token.tag) = token.tag]]
    /\ UNCHANGED <<bvars, svars>>

RepeatNext ==
    \/ \E w \in RepeatWidths : RNew(w)
    \/ RCreate
    \/ \E token_index \in 0 .. (MaxRepeatCreates - 1) : RMarkRemoved(token_index)

StorageNext ==
    \/ \E T \in Types : SPlace(T, ValueOf(splaced + 1))
    \/ \E T \in Types, id \in issued : SRemove(T, id)
    \/ \E id \in issued : SErase(id)
    \/ SClear
    \/ SReset
    \/ SShrinkToFit
    \/ SDrop

Next ==
    \/ Place(ValueOf(nplaced + 1))
    \/ \E index \in Indexes : Remove(index)
    \/ Clear
    \/ ShrinkToFit
    \/ Reset
    \/ Drop

Init == BucketInit /\ StorageInit /\ RepeatInit

Spec == Init /\ [][Next]_vars

StorageSpec == Init /\ [][StorageNext]_vars

RepeatSpec == Init /\ [][RepeatNext]_vars

(* A Storage that is only ever given place, remove and erase calls.        *)
StorageCallsNext ==
    \/ \E T \in Types : SPlace(T, ValueOf(splaced + 1))
    \/ \E T \in Types : \E id \in issued : SRemove(T, id)
    \/ \E id \in issued : SErase(id)

StorageCallsSpec == Init /\ [][StorageCallsNext]_vars

(* A Storage that is never reset.                                          *)
StorageNoResetNext ==
    \/ \E T \in Types : SPlace(T, ValueOf(splaced + 1))
    \/ \E T \in Types : \E id \in issued : SRemove(T, id)
    \/ \E id \in issued : SErase(id)
    \/ SClear
    \/ SShrinkToFit
    \/ SDrop

StorageNoResetSpec == Init /\ [][StorageNoResetNext]_vars

(* A bucket that is only ever given place and remove calls.                *)
PlaceRemoveNext ==
    \/ PlaceWithin(MaxRunPlaces, ValueOf(nplaced + 1))
    \/ \E index \in Indexes : Remove(index)

PlaceRemoveSpec == Init /\ [][PlaceRemoveNext]_vars

(***************************************************************************)
(* Claims about the Bucket, checked under Spec.                            *)
(***************************************************************************)

(* C1: when place(v) returns an id (index, generation), a get with that   *)
(* id issued immediately afterwards returns v and never none.              *)
C1_RoundTripGet ==
    (last.op = "place" /\ last.ret = "id")
        => get_ucnhecked(bucket, last.index) = last.data

(* C2: when place(v) returns an id, a remove with that id issued          *)
(* immediately afterwards returns Some(v).                                 *)
C2_RoundTripRemove ==
    (last.op = "remove" /\ last.fresh) => last.ret = last.data

(* C10: with no reset in between, the generations returned by successive  *)
(* place calls that land on the same index are strictly increasing,       *)
(* whatever remove, clear and shrink_to_fit calls happen in between.       *)
C10_GenerationMonotone ==
    (last.op = "place" /\ last.ret = "id") => last.tag > last.prevGen

(* C11: with no reset, once the cell at index i is banned (a place since  *)
(* the latest reset has written the exhausted generation there), no later  *)
(* place returns index i.                                                  *)
C11_BannedNeverReturned ==
    (last.op = "place" /\ last.ret = "id" /\ last.prevGen >= 0) => ~last.banned

(* C14: after reset(), the first placement at any index returns the       *)
(* default generation, also at indices written before the reset.           *)
C14_DefaultAfterReset ==
    (last.op = "place" /\ last.ret = "id" /\ last.prevGen = -2) =>
        last.tag = DefaultTag

(* C16: clear() is idempotent: a clear that directly follows a clear      *)
(* leaves the bucket as the first clear left it.                           *)
C16_ClearIdempotent == (last.op = "clear" /\ last.again) => last.same

C16_Witness == last.op = "clear" /\ last.again /\ last.first /\ ~bucket.ub

(* C17: every value placed is given up exactly once: no call returns or   *)
(* drops a value that was given up before, no place writes over a value    *)
(* that was not given up, and no value is left in a cell after the drop.   *)
C17_GivenUpOnce ==
    /\ ~last.twice
    /\ ~last.lost
    /\ (bucket.dropped /\ ~bucket.ub) =>
           \A i \in Indexes : bucket.cells[i].data = NoData

(* C18: the drop deallocates every block that was allocated and not yet   *)
(* deallocated, each exactly once: after it no block is left allocated and *)
(* none was deallocated twice.                                             *)
C18_DropFreesBlocks ==
    bucket.dropped =>
        /\ ~bucket.ub
        /\ \A k \in 1 .. Len(bucket.blocks) : bucket.blocks[k] = "freed"

(* C20: starting from the empty bucket, after N consecutive place calls   *)
(* and no other call the bucket holds exactly ceil(N / Cap) allocated      *)
(* blocks.                                                                 *)
AllocatedBlocks(b) == Cardinality({k \in 1 .. Len(b.blocks) : b.blocks[k] = "alloc"})

C20_BlocksAfterPlaces ==
    last.run >= 0 => AllocatedBlocks(bucket) = (last.run + Cap - 1) \div Cap

C20_Witness == last.run = Cap + 1 /\ AllocatedBlocks(bucket) = 2

(* C21: after shrink_to_fit the number of allocated blocks of the bucket  *)
(* is the minimum that covers len, ceil(len / Cap).                        *)
C21_ShrinkMinimalBlocks ==
    (last.op = "shrink_to_fit" /\ ~bucket.ub) =>
        AllocatedBlocks(bucket) = (bucket.len + Cap - 1) \div Cap

(* C22: try_remove, try_get and try_get_mut are total: called on a bucket *)
(* in use they return none, and do not panic, when the index is at or      *)
(* beyond len, when it is in removed, and when the cell is banned.         *)
NoneCase(b, index) ==
    \/ index >= b.len
    \/ index \in b.removed
    \/ index < MaxCells /\ ~Dangling(b, index) /\ is_banned_cell(b, index)

C22_TryTotal ==
    InUse =>
        \A index \in 0 .. MaxCells :
            NoneCase(bucket, index) =>
                /\ bucket_try_remove(bucket, TRUE, index, debug_assertions).ret = None
                /\ bucket_try_get(bucket, TRUE, index, debug_assertions) = None
                /\ bucket_try_get_mut(bucket, TRUE, index, debug_assertions) = None

C22_Witness ==
    /\ InUse
    /\ last.op = "remove" /\ last.ret = None
    /\ last.index < bucket.len /\ last.index \notin bucket.removed
    /\ is_banned_cell(bucket, last.index)

(* C24: the blocking generation policy: next is a saturating increment,   *)
(* next(g) > g for every g below the maximum and next(max) = max, and      *)
(* is_over(g) holds exactly when g is the maximum; every generation a      *)
(* place writes is the next of the one it returns.                         *)
C24_BlockingNext ==
    /\ \A g \in 0 .. TagMax :
          /\ g < TagMax => next(g) > g
          /\ g = TagMax => next(g) = g
          /\ is_over(g) <=> g = TagMax
    /\ (last.op = "place" /\ last.ret = "id") =>
          /\ bucket.cells[last.index].tag = next(last.tag)
          /\ bucket.cells[last.index].tag > last.tag

C24_Witness ==
    /\ last.op = "place" /\ last.ret = "id"
    /\ next(last.tag) = TagMax
    /\ is_over(bucket.cells[last.index].tag)

(* C25: cell_count is at least len in every reachable state, also right   *)
(* after a place (where the two need not be equal).                        *)
C25_CellCountCoversLen == bucket.cell_count >= bucket.len

C25_Witness ==
    /\ last.op = "place" /\ last.ret = "id"
    /\ bucket.cell_count > bucket.len
    /\ ~bucket.ub

(* C25 as stated: cell_count is at least len in every reachable state,    *)
(* and at most len immediately after any place.                            *)
C25_EqualAfterPlace ==
    /\ bucket.cell_count >= bucket.len
    /\ (last.op = "place" /\ last.ret = "id") =>
           bucket.cell_count <= bucket.len

(* C26: every index in the removed set is smaller than len.               *)
C26_RemovedBelowLen == \A i \in bucket.removed : i < bucket.len

(* C27: every index below len is in removed, or is banned, or holds a     *)
(* live value (placed, and neither moved out nor dropped).                 *)
C27_CellsAccounted ==
    InUse =>
        \A i \in Indexes :
            i < bucket.len =>
                \/ i \in bucket.removed
                \/ is_banned_cell(bucket, i)
                \/ bucket.cells[i].data # NoData

(* C28: after any sequence of place and remove calls, place never writes  *)
(* to an index that holds a live value.  Checked under PlaceRemoveSpec.    *)
C28_NoOverwrite == (last.op = "place" /\ last.ret = "id") => ~last.lost

(* C29: after shrink_to_fit has deallocated a block, no later call reads, *)
(* writes or deallocates that block again.                                 *)
C29_NoUseOfFreed == ~bucket.ub

(***************************************************************************)
(* Claims about the Storage, checked under StorageSpec.                    *)
(***************************************************************************)
Alive == storage.status = "ok"

Get(T, id) == try_get(storage, T, id, debug_assertions)

GetMut(T, id) == try_get_mut(storage, T, id, debug_assertions)

(* C3: after remove(id) has returned a value (or erase(id) has run on a   *)
(* contained id), and before any later place, get(id) returns none and    *)
(* contains(id) is false.                                                  *)
C3_GoneAfterRemove ==
    Alive => \A id \in gone :
                /\ ~storage_contains(storage, id)
                /\ \A T \in Types : Get(T, id) = None

(* C4: for every id returned by place, contains(id) is true in every      *)
(* state reached before remove(id), erase(id), clear(), reset() or drop   *)
(* is executed, whatever other operations happen in between.               *)
C4_ContainsUntilRemoved ==
    Alive => \A id \in owed : storage_contains(storage, id)

(* C5: for a live id (the id of a value the Storage holds, removed as the *)
(* type it was placed as), the first remove(id) returns Some(v) and a     *)
(* second remove(id) issued directly after it returns none.                *)
C5_RemoveTwice ==
    /\ (slast.op = "remove" /\ slast.expect # None) => slast.ret = slast.expect
    /\ (slast.op = "remove" /\ slast.again) => slast.ret = None

C5_Witness ==
    /\ slast.op = "remove" /\ slast.again /\ slast.ret = None /\ Alive

(* C6: after id1 = place(A), remove(id1), id2 = place(B) where B reuses   *)
(* the token of A, contains(id1) is false while contains(id2) is true.     *)
C6_AbaContains ==
    aba.set => /\ ~storage_contains(storage, aba.id1)
               /\ storage_contains(storage, aba.id2)

C6_Witness == aba.set /\ Alive /\ aba.ty1 = aba.ty2

(* C7: after id1 = place(A), remove(id1), id2 = place(B) where B reuses   *)
(* the token of A, get(id1) returns none and get(id2) returns B.           *)
C7_AbaGet ==
    aba.set => /\ Get(aba.ty1, aba.id1) = None
               /\ Get(aba.ty2, aba.id2) = aba.data

(* C8: a remove issued with a stale id (an id whose token has since been  *)
(* reused by a later place) returns none and leaves the value placed       *)
(* later in the Storage, still retrievable by its own id.                  *)
C8_StaleRemove ==
    (slast.op = "remove" /\ slast.stale) =>
        /\ slast.ret = None
        /\ Get(slast.victim.ty, slast.victim.id) = slast.victim.data

(* C9: for a value placed as type T and any other type U, get::<U>,       *)
(* get_mut::<U> and remove::<U> with that value's id return none, and the *)
(* value stays retrievable as T.                                           *)
C9_TypeIsolation ==
    Alive =>
        /\ \A it \in Stored(storage) : \A U \in Types \ {it.ty} :
               Get(U, it.id) = None /\ GetMut(U, it.id) = None
        /\ (slast.op = "remove" /\ slast.mismatch) =>
               /\ slast.ret = None
               /\ slast.same
               /\ Get(slast.victim.ty, slast.id) = slast.victim.data

C9_Witness ==
    /\ Alive /\ slast.op = "remove" /\ slast.mismatch
    /\ Get(slast.victim.ty, slast.id) = slast.victim.data
    /\ Cardinality(Stored(storage)) >= 2

(* C12: reset() lifts the ban: a token that was locked before the reset   *)
(* because its generation was exhausted is not locked after it.            *)
C12_ResetLiftsLock ==
    (slast.op = "reset" /\ Alive) =>
        \A k \in slast.locked : ~is_locked(storage.tokens.tokens[k + 1].tag)

(* C13: directly after reset and before any new place, contains(id) is    *)
(* false and get(id) is none for every id issued before the reset.         *)
C13_EmptyAfterReset ==
    (slast.op = "reset" /\ Alive) =>
        \A id \in issued :
            /\ ~storage_contains(storage, id)
            /\ \A T \in Types : Get(T, id) = None

(* C15: no id a place returns after clear() equals an id issued before    *)
(* the clear: the place that directly follows a clear returns none of the  *)
(* ids of the values the clear found in the Storage.                       *)
C15_FreshIdAfterClear ==
    (slast.op = "place" /\ slast.ret = "id") => slast.id \notin slast.before

(* C19: while an id is live, the location of its value (bucket and        *)
(* in-bucket index) does not change across calls that are no remove,       *)
(* erase, clear, reset or drop of that id.                                 *)
Location(st, id) ==
    [bucket_index |-> st.tokens.tokens[id.token_index + 1].w0,
     inbucket_index |-> st.tokens.tokens[id.token_index + 1].w1]

C19_Stable ==
    [][\A id \in owed \cap owed' :
          (storage_contains(storage, id) /\ storage_contains(storage', id))
              => Location(storage', id) = Location(storage, id)]_vars

(* C23: after any sequence of operations, clear and reset included, the   *)
(* Storage holds at most one bucket per type, and a bucket for T exists    *)
(* exactly when some value of type T has been placed.                      *)
BucketsOf(st, T) == {k \in 1 .. Len(st.data) : st.data[k].type_id = T}

C23_OneBucketPerType ==
    Alive =>
        \A T \in Types :
            /\ Cardinality(BucketsOf(storage, T)) <= 1
            /\ BucketsOf(storage, T) # {} <=> T \in placed_types

(* C30: after any sequence of place, remove and erase calls, for every id *)
(* that is still contained, get(id) returns the value that was placed when *)
(* that id was issued.  Checked under StorageCallsSpec.                    *)
C30_LocationsKept ==
    Alive =>
        \A id \in issued :
            storage_contains(storage, id) =>
                \E it \in Stored(storage) :
                    /\ it.id = id
                    /\ Get(it.ty, id) = it.data

C30_Witness ==
    /\ Alive
    /\ placed_types = {"T"}
    /\ \E id \in issued :
          /\ id.token_index >= 1 /\ id.tag = DefaultTag
          /\ storage_contains(storage, id)
          /\ storage.tokens.tokens[id.token_index + 1].w1 = 0
          /\ Get("T", id) \in Values
(***************************************************************************)
(* Further claims about the Bucket.                                        *)
(***************************************************************************)

(* C31: a try_remove that returns none leaves the bucket unchanged: len,  *)
(* cell_count, the removed set and every cell are as before the call.      *)
C31_NoneChangesNothing ==
    (last.op = "remove" /\ last.ret = None) => last.same

(* C33: a successful place returns the generation the cell held before    *)
(* the call (the default for a never-written cell) and leaves the cell's   *)
(* stored generation equal to next of the returned one.                    *)
C33_ReturnsHeldGeneration ==
    (last.op = "place" /\ last.ret = "id") =>
        /\ last.tag = last.held
        /\ bucket.cells[last.index].tag = next(last.tag)
(* C34: remove leaves the stored generation of every cell unchanged, that *)
(* of the removed cell included; a stored generation changes only in       *)
(* place and reset.                                                        *)
C34_GenerationFrame ==
    [][(\E i \in Indexes : bucket'.cells[i].tag # bucket.cells[i].tag)
           => last'.op \in {"place", "reset"}]_vars

C34_Witness ==
    /\ last.op = "remove" /\ last.ret \in Values
    /\ bucket.cells[last.index].tag # DefaultTag
    /\ last.index \in bucket.removed

(* C35: no banned index is a member of removed, so place never takes a    *)
(* banned index from the reuse pool.                                       *)
C35_NoBannedInRemoved ==
    \A i \in bucket.removed : ~is_banned_cell(bucket, i)

C35_Witness ==
    /\ last.op = "remove" /\ last.ret = None
    /\ is_banned_cell(bucket, last.index)
    /\ bucket.cells[last.index].data # NoData
    /\ bucket.removed # {}

C32_MismatchChangesNothing ==
    (Alive /\ slast.op = "remove" /\ slast.mismatch) =>
        /\ slast.ret = None
        /\ slast.same
        /\ ~is_removed(storage.tokens.tokens[slast.id.token_index + 1].tag)
        /\ storage.tokens.free_cursor # <<slast.id.token_index>>
        /\ storage_contains(storage, slast.id)
        /\ Get(slast.victim.ty, slast.id) = slast.victim.data

C32_Witness ==
    /\ Alive /\ slast.op = "remove" /\ slast.mismatch
    /\ storage.tokens.free_cursor # <<>>
    /\ storage_contains(storage, slast.id)

(* C36: under the Unique tag policy, across place, remove and erase calls *)
(* with no clear and no reset, place never returns an id equal to one it   *)
(* returned earlier.  Checked under StorageCallsSpec.                      *)
C36_IdsNeverReissued ==
    (slast.op = "place" /\ slast.ret = "id") => ~slast.reissued

C36_Witness ==
    /\ slast.op = "place" /\ slast.ret = "id"
    /\ slast.id.tag # DefaultTag
    /\ \E id \in issued : id.token_index = slast.id.token_index /\ id # slast.id

(* C37: free-list integrity: free_cursor is none or the index of an       *)
(* existing token that is marked removed and not locked, and the           *)
(* free_token_index links from it visit only such tokens and end at a      *)
(* token that links to itself.                                             *)
RECURSIVE FreeWalk(_, _, _)
FreeWalk(tb, i, n) ==
    IF i >= Len(tb.tokens) THEN FALSE
    ELSE LET token == tb.tokens[i + 1]
         IN  IF ~is_removed(token.tag) \/ is_locked(token.tag) THEN FALSE
             ELSE IF token.w0 = i THEN TRUE
             ELSE IF n = 0 THEN FALSE
             ELSE FreeWalk(tb, token.w0, n - 1)

FreeListOk(tb) ==
    tb.free_cursor = <<>> \/ FreeWalk(tb, tb.free_cursor[1], Len(tb.tokens))

C37_FreeListIntegrity == Alive => FreeListOk(storage.tokens)

(* C38: under the Unique policy and with no reset, a token whose tag has  *)
(* reached its last value becomes locked when it is removed, and a locked  *)
(* token is never on the free list and never returned by create again.     *)
(* Checked under StorageNoResetSpec.                                       *)
RECURSIVE OnFreeList(_, _, _, _)
OnFreeList(tb, i, k, n) ==
    IF i >= Len(tb.tokens) THEN FALSE
    ELSE IF i = k THEN TRUE
    ELSE IF tb.tokens[i + 1].w0 = i \/ n = 0 THEN FALSE
    ELSE OnFreeList(tb, tb.tokens[i + 1].w0, k, n - 1)

LockedTokens(tb) == {k \in 0 .. (Len(tb.tokens) - 1) : is_locked(tb.tokens[k + 1].tag)}

C40_RepeatNeverLocks ==
    rtokens.last.op = "mark_removed" =>
        LET id == rtokens.last.id
            token == rtokens.tb.tokens[id.token_index + 1]
        IN  /\ ~rtokens.last.lock_branch
            /\ repeat_is_removed(rtokens.w, token.tag)
            /\ rtokens.tb.free_cursor = <<id.token_index>>
            /\ ~repeat_contains(rtokens.w, rtokens.tb, id.token_index, id.tag)
====
